---- MODULE Spec2Model ----
(***************************************************************************)
(* Silence removal pipeline of silent-video-editor:                        *)
(*   utils/audio_utils.py   calculate_rms, calculate_rms_db                *)
(*   utils/video_utils.py   detect_non_silent_intervals, process_video     *)
(*                                                                         *)
(* Time.  Every time the code computes is k * 0.05, k * frame_size / fps   *)
(* or len / fps seconds, plus or minus parameters.  The model measures     *)
(* time in ticks of 1 / (20 * fps) second, so that all of them are         *)
(* integers: 0.05 s = fps ticks, one sample = 20 ticks.  Parameters given  *)
(* in seconds are drawn as multiples of 0.05 s ("units") and converted     *)
(* with UnitsToTicks.  Arithmetic is exact (no float rounding).            *)
(*                                                                         *)
(* Loudness.  20*log10(rms + 1e-9) > threshold_db is monotone in the mean  *)
(* square of the frame, so a threshold is modelled by the mean-square      *)
(* level it cuts at, in quarters: a frame is above the threshold iff       *)
(* 4 * sum(frame^2) > thr * len(frame).  thr = -1 stands for a threshold   *)
(* below -180 dB, which even an all-zero frame (rms 0) exceeds.            *)
(***************************************************************************)
EXTENDS Integers, Sequences, FiniteSets, TLC

\* One call of detect_non_silent_intervals followed by the padding loop:
\*   d_pc       "input" -> "detected" -> "padded"
\*   d_audio    the mono sample buffer;  d_fps its sample rate
\*   d_thr      silence_threshold_db (as a mean-square level)
\*   d_min, d_gap   min_silence_len_sec, merge_gap_sec in units of 0.05 s
\*   d_rms      the loudness values calculate_rms returned to the detection,
\*              each as <<sum of squares, number of samples>> of its frame
\*   d_silent   silent_intervals_sec, the silent runs as time intervals (ticks)
\*   d_kept     the list detect_non_silent_intervals returned (ticks)
\*   d_sp, d_ep, d_vd   start/end padding (units) and video duration (ticks)
\*   d_padded   adjusted_intervals (ticks)
VARIABLES d_pc, d_audio, d_fps, d_thr, d_min, d_gap, d_rms, d_silent, d_kept,
          d_sp, d_ep, d_vd, d_padded

dvars == <<d_pc, d_audio, d_fps, d_thr, d_min, d_gap, d_rms, d_silent, d_kept,
           d_sp, d_ep, d_vd, d_padded>>

\* Calls of process_video, one per element of active:
\*   active      the invocations that are made
\*   budget      collaborator failures each invocation may meet
\*   inp[p]      its arguments and its input file
\*   proc[p]     its locals and its position (see ProcStart)
\*   temp_audio  the file 'temp-audio.m4a' of the working directory: 0 when
\*               absent, else the invocation whose audio it holds
\*   outfile[p]  the file at output_path; outdir[p] whether its directory exists
VARIABLES active, budget, inp, proc, temp_audio, outfile, outdir

pvars == <<active, budget, inp, proc, temp_audio, outfile, outdir>>

vars == <<dvars, pvars>>

\* ------------------------------------------------------------ bounds
\* Longest sample buffer drawn for detection.
MaxSamples == 6
\* Length of the sample buffer of a process_video run.
ProcSamples == 5
\* Collaborator failures injected into one process_video run.
MaxFaults == 2

Amplitudes == {0, 1}
FpsValues == {-20, 0, 5, 10, 20, 30, 40}
Thresholds == {-1, 0, 2}
MinSilenceUnits == {0, 1, 3}
MergeGapUnits == {-1, 0, 2}
PaddingUnits == {-1, 0, 2}

\* ------------------------------------------------------------ helpers
Max(a, b) == IF a >= b THEN a ELSE b
Min(a, b) == IF a <= b THEN a ELSE b

RECURSIVE SeqsUpTo(_)
SeqsUpTo(n) ==
    IF n = 0 THEN {<<>>}
    ELSE LET S == SeqsUpTo(n - 1)
         IN  S \cup {Append(s, a) : s \in {t \in S : Len(t) = n - 1}, a \in Amplitudes}

SeqsOfLen(n) == {s \in SeqsUpTo(n) : Len(s) = n}

\* audio_array = None: a value that is no sample buffer (no sample is -1)
NoneArray == <<-1>>

\* seconds given as a multiple of 0.05 s, in ticks of 1/(20*fps) s
UnitsToTicks(u, fps) == u * fps

\* ------------------------------------------------ utils/audio_utils.py
\* frame i of calculate_rms (i = 0, 1, ...): audio_array[i*fs : i*fs + fs];
\* a slice running past the end of the buffer is cut there
Frame(audio_array, frame_size, i) ==
    SubSeq(audio_array, i * frame_size + 1,
           Min((i + 1) * frame_size, Len(audio_array)))

\* one loudness value per step of range(0, len(audio_array), frame_size)
NumFrames(audio_array, frame_size) ==
    (Len(audio_array) + frame_size - 1) \div frame_size

RECURSIVE SumSquares(_)
SumSquares(frame) ==
    IF frame = <<>> THEN 0
    ELSE Head(frame) * Head(frame) + SumSquares(Tail(frame))

\* calculate_rms(audio_array, frame_size): one value per frame, kept as the
\* pair <<sum of squares, number of samples>> the root mean square is taken of
CalculateRms(audio_array, frame_size) ==
    [k \in 1..NumFrames(audio_array, frame_size) |->
        <<SumSquares(Frame(audio_array, frame_size, k - 1)),
          Len(Frame(audio_array, frame_size, k - 1))>>]

\* variant: a frame exactly at the threshold counts as above it
AboveThresholdInclusive(audio_array, frame_size, i, thr) ==
    LET frame == Frame(audio_array, frame_size, i)
    IN  4 * SumSquares(frame) >= thr * Len(frame)

\* rms_db[i] > silence_threshold_db  (see "Loudness" above)
AboveThreshold(audio_array, frame_size, i, thr) ==
    LET frame == Frame(audio_array, frame_size, i)
    IN  4 * SumSquares(frame) > thr * Len(frame)

\* ------------------------------------------------ utils/video_utils.py
\* detection_frame_size, with its two fallbacks
DetectionFrameSize(fps) ==
    IF fps \div 20 > 0 THEN fps \div 20
    ELSE IF fps \div 10 > 0 THEN fps \div 10
    ELSE 256

\* detection_frame_duration_sec in ticks: 0.05 s, or frame_size / fps when the
\* fallback frame size is used
DetectionFrameDuration(fps) ==
    IF fps \div 20 > 0 THEN fps
    ELSE DetectionFrameSize(fps) * 20

\* total_duration_sec = len(audio_array_mono) / fps, in ticks
TotalDuration(audio_array) == Len(audio_array) * 20

\* variant: the fallback for a min_silence_len_sec that is not positive is 0.05 s
EffectiveMinSilenceShortFallback(min_units) == IF min_units <= 0 THEN 1 ELSE min_units

\* min_silence_len_sec after validation: 0.1 s when not positive
EffectiveMinSilence(min_units) == IF min_units <= 0 THEN 2 ELSE min_units

\* merge_gap_sec after validation: 0 when negative
EffectiveMergeGap(gap_units) == IF gap_units < 0 THEN 0 ELSE gap_units

\* np.where(rms_db > threshold)[0] / np.where(rms_db <= threshold)[0]
NonSilentIndices(audio_array, frame_size, thr) ==
    SelectSeq([k \in 1..NumFrames(audio_array, frame_size) |-> k - 1],
              LAMBDA i : AboveThreshold(audio_array, frame_size, i, thr))

SilentIndices(audio_array, frame_size, thr) ==
    SelectSeq([k \in 1..NumFrames(audio_array, frame_size) |-> k - 1],
              LAMBDA i : ~AboveThreshold(audio_array, frame_size, i, thr))

\* the grouping loop: consecutive indices extend the current group
RECURSIVE GroupLoop(_, _, _, _, _)
GroupLoop(indices, i, group_start, group_end, groups) ==
    IF i > Len(indices) THEN Append(groups, <<group_start, group_end>>)
    ELSE IF indices[i] <= group_end + 1
         THEN GroupLoop(indices, i + 1, group_start, indices[i], groups)
         ELSE GroupLoop(indices, i + 1, indices[i], indices[i],
                        Append(groups, <<group_start, group_end>>))

GroupConsecutive(indices) ==
    IF Len(indices) = 0 THEN <<>>
    ELSE GroupLoop(indices, 2, indices[1], indices[1], <<>>)

\* variant: the interval runs one frame past the last frame of the group
GroupToIntervalOneFrameLong(group, frame_duration, total_duration) ==
    <<group[1] * frame_duration,
      Min((group[2] + 2) * frame_duration, total_duration)>>

\* variant: the end of the interval is not clamped to the total duration
GroupToIntervalNoClamp(group, frame_duration, total_duration) ==
    <<group[1] * frame_duration, (group[2] + 1) * frame_duration>>

\* a group of frame indices as a time interval, its end clamped to the total
GroupToInterval(group, frame_duration, total_duration) ==
    <<group[1] * frame_duration,
      Min((group[2] + 1) * frame_duration, total_duration)>>

GroupsToIntervals(groups, frame_duration, total_duration) ==
    [k \in 1..Len(groups) |->
        GroupToInterval(groups[k], frame_duration, total_duration)]

\* "Merge Short Gaps Between Intervals": merged_intervals
RECURSIVE MergeLoop(_, _, _, _)
MergeLoop(intervals_sec, i, merge_gap, merged) ==
    IF i > Len(intervals_sec) THEN merged
    ELSE LET prev == merged[Len(merged)]
             curr == intervals_sec[i]
         IN  IF curr[1] - prev[2] <= merge_gap
             THEN MergeLoop(intervals_sec, i + 1, merge_gap,
                    [merged EXCEPT ![Len(merged)] = <<prev[1], Max(prev[2], curr[2])>>])
             ELSE MergeLoop(intervals_sec, i + 1, merge_gap, Append(merged, curr))

MergeShortGaps(intervals_sec, merge_gap) ==
    IF merge_gap > 0 /\ Len(intervals_sec) > 1
    THEN MergeLoop(intervals_sec, 2, merge_gap, <<intervals_sec[1]>>)
    ELSE intervals_sec

\* silent_intervals_sec: the silent runs as time intervals
SilentIntervals(audio_array, fps, thr) ==
    GroupsToIntervals(
        GroupConsecutive(SilentIndices(audio_array, DetectionFrameSize(fps), thr)),
        DetectionFrameDuration(fps), TotalDuration(audio_array))

\* long_silent_intervals: the silent runs of at least min_silence_len_sec
LongSilentIntervals(silent_intervals_sec, min_silence) ==
    SelectSeq(silent_intervals_sec, LAMBDA iv : iv[2] - iv[1] >= min_silence)

\* variant: the cursor is not moved past the long silence
RECURSIVE InvertLoopNoAdvance(_, _, _, _)
InvertLoopNoAdvance(long_silent, i, current_time, kept_intervals) ==
    IF i > Len(long_silent) THEN <<current_time, kept_intervals>>
    ELSE InvertLoopNoAdvance(long_silent, i + 1, current_time,
            IF current_time < long_silent[i][1]
            THEN Append(kept_intervals, <<current_time, long_silent[i][1]>>)
            ELSE kept_intervals)

\* the inversion loop: the stretch before each long silence is kept
RECURSIVE InvertLoop(_, _, _, _)
InvertLoop(long_silent, i, current_time, kept_intervals) ==
    IF i > Len(long_silent) THEN <<current_time, kept_intervals>>
    ELSE InvertLoop(long_silent, i + 1, Max(current_time, long_silent[i][2]),
            IF current_time < long_silent[i][1]
            THEN Append(kept_intervals, <<current_time, long_silent[i][1]>>)
            ELSE kept_intervals)

\* variant: the stretch after the last long silence is not appended
KeptIntervalsNoTail(long_silent, total_duration) ==
    InvertLoop(long_silent, 1, 0, <<>>)[2]

\* current_time sweeps over the long silences; the rest up to total_duration
\* is kept
KeptIntervals(long_silent, total_duration) ==
    LET r == InvertLoop(long_silent, 1, 0, <<>>)
    IN  IF r[1] < total_duration
        THEN Append(r[2], <<r[1], total_duration>>)
        ELSE r[2]

\* variant: only a negative fps is refused
InvalidInputNegativeFps(audio_array, fps) ==
    \/ fps < 0
    \/ audio_array = NoneArray
    \/ Len(audio_array) = 0

\* `if fps <= 0` and `if audio_array is None or audio_array.size == 0`, each
\* followed by `return []`
InvalidInput(audio_array, fps) ==
    \/ fps <= 0
    \/ audio_array = NoneArray
    \/ Len(audio_array) = 0

\* variant: the voiced runs merged over gaps of at most merge_gap_sec are returned
DetectReturningMerged(audio_array, fps, thr, min_units, gap_units) ==
    IF InvalidInput(audio_array, fps) THEN <<>>
    ELSE
    LET merge_gap  == UnitsToTicks(EffectiveMergeGap(gap_units), fps)
        frame_size == DetectionFrameSize(fps)
        non_silent == NonSilentIndices(audio_array, frame_size, thr)
    IN  IF Len(non_silent) = 0 THEN <<>>
        ELSE MergeShortGaps(
                GroupsToIntervals(GroupConsecutive(non_silent),
                                  DetectionFrameDuration(fps),
                                  TotalDuration(audio_array)),
                merge_gap)

\* detect_non_silent_intervals(audio_array, fps, silence_threshold_db,
\*                             min_silence_len_sec, merge_gap_sec)
DetectNonSilentIntervals(audio_array, fps, thr, min_units, gap_units) ==
    IF InvalidInput(audio_array, fps) THEN <<>>
    ELSE
    LET min_silence  == UnitsToTicks(EffectiveMinSilence(min_units), fps)
        merge_gap    == UnitsToTicks(EffectiveMergeGap(gap_units), fps)
        frame_size   == DetectionFrameSize(fps)
        duration     == DetectionFrameDuration(fps)
        total        == TotalDuration(audio_array)
        non_silent   == NonSilentIndices(audio_array, frame_size, thr)
        intervals    == MergeShortGaps(
                            GroupsToIntervals(GroupConsecutive(non_silent),
                                              duration, total),
                            merge_gap)
    IN  IF NumFrames(audio_array, frame_size) = 0 THEN <<>>
        ELSE IF Len(non_silent) = 0 THEN <<>>
        ELSE IF Len(intervals) = 0 THEN <<>>
        ELSE KeptIntervals(
                LongSilentIntervals(SilentIntervals(audio_array, fps, thr), min_silence),
                total)

\* variant: an interval that padding collapsed to nothing is emitted all the same
PadStepKeepsEmpty(acc, interval, start_padding, end_padding, video_duration) ==
    LET padded_start == Max(acc[1], Max(0, interval[1] - start_padding))
        padded_end   == Min(video_duration, interval[2] + end_padding)
    IN  IF padded_end >= padded_start
        THEN <<padded_end, Append(acc[2], <<padded_start, padded_end>>)>>
        ELSE acc

\* variant: the end padding is taken off the end of the interval
PadStepEndPaddingSubtracted(acc, interval, start_padding, end_padding, video_duration) ==
    LET padded_start == Max(acc[1], Max(0, interval[1] - start_padding))
        padded_end   == Min(video_duration, interval[2] - end_padding)
    IN  IF padded_end > padded_start
        THEN <<padded_end, Append(acc[2], <<padded_start, padded_end>>)>>
        ELSE acc

\* variant: the padded start is not held back to the end of the last kept segment
PadStepNoOverlapGuard(acc, interval, start_padding, end_padding, video_duration) ==
    LET padded_start == Max(0, interval[1] - start_padding)
        padded_end   == Min(video_duration, interval[2] + end_padding)
    IN  IF padded_end > padded_start
        THEN <<padded_end, Append(acc[2], <<padded_start, padded_end>>)>>
        ELSE acc

\* one turn of the padding loop of process_video: <<last_kept_end_time, adjusted>>
PadStep(acc, interval, start_padding, end_padding, video_duration) ==
    LET padded_start == Max(acc[1], Max(0, interval[1] - start_padding))
        padded_end   == Min(video_duration, interval[2] + end_padding)
    IN  IF padded_end > padded_start
        THEN <<padded_end, Append(acc[2], <<padded_start, padded_end>>)>>
        ELSE acc

RECURSIVE PadLoop(_, _, _, _, _, _)
PadLoop(intervals, i, acc, start_padding, end_padding, video_duration) ==
    IF i > Len(intervals) THEN acc[2]
    ELSE PadLoop(intervals, i + 1,
                 PadStep(acc, intervals[i], start_padding, end_padding, video_duration),
                 start_padding, end_padding, video_duration)

\* adjusted_intervals
AdjustedIntervals(intervals, start_padding, end_padding, video_duration) ==
    PadLoop(intervals, 1, <<0, <<>>>>, start_padding, end_padding, video_duration)

\* ------------------------------------------------ detection and padding
\* durations a video can have next to its audio track: the same, 0.05 s, longer
VideoDurations(audio_array, fps) ==
    {TotalDuration(audio_array), UnitsToTicks(1, fps),
     TotalDuration(audio_array) + fps}

\* ------------------------------------------------ process_video
Procs == {1, 2}

\* target_fps = audio_fps if audio_fps and audio_fps > 0 else 44100
TargetFps(audio_fps) == IF audio_fps > 0 THEN audio_fps ELSE 44100

\* variant: the segment index is not divided by the number of segments
SegmentProgressNoDivision(i, n) == <<30 + 60 * i, 100>>

\* segment_progress = 0.3 + 0.6 * (i / len(adjusted_intervals)), as a fraction
\* <<numerator, denominator>>
SegmentProgress(i, n) == <<30 * n + 60 * i, 100 * n>>

\* a / b <= c / d for fractions with positive denominators
FracLeq(x, y) == x[1] * y[2] <= y[1] * x[2]

\* the locals of a call as process_video sets them before its try block
ProcStart ==
    [pc         |-> "report_load",
     video      |-> "none",      \* "none" | "open" | "closed" | "close_failed"
     audio      |-> "none",
     final_clip |-> "none",
     subclips   |-> <<>>,        \* one handle state per video.subclipped call
     closes     |-> [video |-> 0, audio |-> 0, final_clip |-> 0],
     kept       |-> <<>>,        \* non_silent_intervals
     adjusted   |-> <<>>,        \* adjusted_intervals
     reports    |-> <<>>,        \* the calls of progress_callback that returned
     calls      |-> <<>>,        \* the collaborator calls made, in order
     slices     |-> <<>>,        \* the interval of each subclip in `subclips`
     concat_arg |-> <<>>,        \* the intervals of the list given to concatenation
     ret        |-> "none",      \* what the call returns, or "raised"
     err        |-> "none",      \* the exception caught by `except Exception`
     faults     |-> 0]

ProcOff == [ProcStart EXCEPT !.pc = "off"]

\* whether the collaborator call made in this step succeeds
Outcomes(p) == IF proc[p].faults < budget THEN {TRUE, FALSE} ELSE {TRUE}

\* an exception raised inside the try block by a collaborator
Raise(p, cause, injected) ==
    [proc[p] EXCEPT !.pc = "except", !.err = cause,
                    !.faults = IF injected THEN @ + 1 ELSE @]

\* the call of a collaborator, returning or raising, is recorded
Called(state, name) == [state EXCEPT !.calls = Append(@, name)]

\* the checkpoints `if progress_callback: progress_callback(fraction, message)`
\* of the try block: the fraction reported and the step that follows
ReportPcs == {"report_load", "report_extract", "report_detect", "report_segment",
              "report_concat", "report_write", "report_done"}

ReportFraction(p) ==
    CASE proc[p].pc = "report_load"    -> <<0, 100>>
      [] proc[p].pc = "report_extract" -> <<10, 100>>
      [] proc[p].pc = "report_detect"  -> <<20, 100>>
      [] proc[p].pc = "report_segment" ->
            SegmentProgress(Len(proc[p].subclips), Len(proc[p].adjusted))
      [] proc[p].pc = "report_concat"  -> <<90, 100>>
      [] proc[p].pc = "report_write"   -> <<95, 100>>
      [] proc[p].pc = "report_done"    -> <<100, 100>>

AfterReport(p) ==
    CASE proc[p].pc = "report_load"    -> "load"
      [] proc[p].pc = "report_extract" -> "extract"
      [] proc[p].pc = "report_detect"  -> "detect"
      [] proc[p].pc = "report_segment" -> "subclip"
      [] proc[p].pc = "report_concat"  -> "concat"
      [] proc[p].pc = "report_write"   -> "write_temp_audio"
      [] proc[p].pc = "report_done"    -> "finally"

ReportProgress(p) ==
    /\ proc[p].pc \in ReportPcs
    /\ \E ok \in (IF inp[p].callback THEN Outcomes(p) ELSE {TRUE}) :
          proc' = [proc EXCEPT ![p] =
            IF ~ok THEN Raise(p, "callback", TRUE)
            ELSE [@ EXCEPT
                    !.pc = AfterReport(p),
                    !.reports = IF inp[p].callback
                                THEN Append(@, [fraction |-> ReportFraction(p),
                                                error |-> FALSE])
                                ELSE @,
                    \* `return True, output_path` after the last checkpoint
                    !.ret = IF proc[p].pc = "report_done" THEN "ok" ELSE @]]
    /\ UNCHANGED <<dvars, active, budget, inp, temp_audio, outfile, outdir>>

\* video = VideoFileClip(video_path); audio = video.audio;
\* if audio is None: raise ValueError
Load(p) ==
    /\ proc[p].pc = "load"
    /\ \E ok \in Outcomes(p) :
          proc' = [proc EXCEPT ![p] = Called(
            IF ~ok THEN Raise(p, "open", TRUE)
            ELSE IF ~inp[p].has_audio
                 THEN [Raise(p, "no_audio", FALSE) EXCEPT !.video = "open"]
                 ELSE [@ EXCEPT !.pc = "report_extract",
                                !.video = "open", !.audio = "open"],
            "VideoFileClip")]
    /\ UNCHANGED <<dvars, active, budget, inp, temp_audio, outfile, outdir>>

\* audio_array = audio.to_soundarray(fps=target_fps, ...)
Extract(p) ==
    /\ proc[p].pc = "extract"
    /\ \E ok \in Outcomes(p) :
          proc' = [proc EXCEPT ![p] = Called(
            IF ~ok THEN Raise(p, "to_soundarray", TRUE)
            ELSE [@ EXCEPT !.pc = "report_detect"],
            "to_soundarray")]
    /\ UNCHANGED <<dvars, active, budget, inp, temp_audio, outfile, outdir>>

\* detect_non_silent_intervals, the return on an empty list, the padding loop
DetectAndPad(p) ==
    /\ proc[p].pc = "detect"
    /\ LET fps == TargetFps(inp[p].audio_fps)
           non_silent == DetectNonSilentIntervals(inp[p].audio, fps, inp[p].thr,
                                                  inp[p].min_silence, inp[p].merge_gap)
           adjusted == AdjustedIntervals(non_silent,
                           UnitsToTicks(inp[p].start_padding, fps),
                           UnitsToTicks(inp[p].end_padding, fps),
                           inp[p].video_duration)
       IN  proc' = [proc EXCEPT ![p] = Called(
             IF Len(non_silent) = 0
             THEN [@ EXCEPT !.kept = non_silent,
                            !.pc = "finally", !.ret = "no_segments"]
             ELSE [@ EXCEPT !.kept = non_silent,
                            !.adjusted = adjusted,
                            !.pc = IF Len(adjusted) > 0 THEN "report_segment"
                                   ELSE "close_video_early"],
             "detect_non_silent_intervals")]
    /\ UNCHANGED <<dvars, active, budget, inp, temp_audio, outfile, outdir>>

\* variant: the loop walks the padded intervals from the last to the first
SegmentAtReversed(adjusted_intervals, i) ==
    adjusted_intervals[Len(adjusted_intervals) - i]

\* for i, (adj_start, adj_end) in enumerate(adjusted_intervals): the i-th turn
SegmentAt(adjusted_intervals, i) == adjusted_intervals[i + 1]

\* subclips.append(video.subclipped(adj_start, adj_end))
Subclip(p) ==
    /\ proc[p].pc = "subclip"
    /\ \E ok \in Outcomes(p) :
          proc' = [proc EXCEPT ![p] = Called(
            IF ~ok THEN Raise(p, "subclipped", TRUE)
            ELSE [@ EXCEPT !.subclips = Append(@, "open"),
                           !.slices = Append(@, SegmentAt(proc[p].adjusted,
                                                          Len(proc[p].subclips))),
                           !.pc = IF Len(proc[p].subclips) + 1 < Len(proc[p].adjusted)
                                  THEN "report_segment" ELSE "report_concat"],
            "subclipped")]
    /\ UNCHANGED <<dvars, active, budget, inp, temp_audio, outfile, outdir>>

\* `if not subclips:` ... `if video: video.close()`
CloseVideoEarly(p) ==
    /\ proc[p].pc = "close_video_early"
    /\ \E ok \in Outcomes(p) :
          proc' = [proc EXCEPT ![p] =
            IF ~ok THEN [Raise(p, "close", TRUE) EXCEPT !.video = "close_failed"]
            ELSE [@ EXCEPT !.video = "closed", !.closes.video = @ + 1,
                           !.pc = "close_audio_early"]]
    /\ UNCHANGED <<dvars, active, budget, inp, temp_audio, outfile, outdir>>

\* `if audio: audio.close()`, then `return False, "Error: Could not extract ..."`
CloseAudioEarly(p) ==
    /\ proc[p].pc = "close_audio_early"
    /\ \E ok \in Outcomes(p) :
          proc' = [proc EXCEPT ![p] =
            IF ~ok THEN [Raise(p, "close", TRUE) EXCEPT !.audio = "close_failed"]
            ELSE [@ EXCEPT !.audio = "closed", !.closes.audio = @ + 1,
                           !.ret = "padding_empty", !.pc = "finally"]]
    /\ UNCHANGED <<dvars, active, budget, inp, temp_audio, outfile, outdir>>

\* final_clip = concatenate_videoclips(subclips, method="compose")
Concatenate(p) ==
    /\ proc[p].pc = "concat"
    /\ \E ok \in Outcomes(p) :
          proc' = [proc EXCEPT ![p] = Called(
            [(IF ~ok THEN Raise(p, "concatenate", TRUE)
              ELSE [@ EXCEPT !.final_clip = "open", !.pc = "makedirs"])
             EXCEPT !.concat_arg = proc[p].slices],
            "concatenate_videoclips")]
    /\ UNCHANGED <<dvars, active, budget, inp, temp_audio, outfile, outdir>>

\* if output_dir and not os.path.exists(output_dir): os.makedirs(output_dir)
MakeOutputDir(p) ==
    /\ proc[p].pc = "makedirs"
    /\ \E ok \in (IF outdir[p] THEN {TRUE} ELSE Outcomes(p)) :
          /\ proc' = [proc EXCEPT ![p] =
                IF outdir[p] THEN [@ EXCEPT !.pc = "report_write"]
                ELSE Called(IF ~ok THEN Raise(p, "makedirs", TRUE)
                            ELSE [@ EXCEPT !.pc = "report_write"],
                            "makedirs")]
          /\ outdir' = [outdir EXCEPT ![p] = @ \/ ok]
    /\ UNCHANGED <<dvars, active, budget, inp, temp_audio, outfile>>

\* final_clip.write_videofile(output_path, temp_audiofile='temp-audio.m4a',
\* remove_temp=True, ...), first part: the audio is written to the temporary file
WriteTempAudio(p) ==
    /\ proc[p].pc = "write_temp_audio"
    /\ \E ok \in Outcomes(p) :
          proc' = [proc EXCEPT ![p] = Called(
            IF ~ok THEN Raise(p, "write", TRUE)
            ELSE [@ EXCEPT !.pc = "write_video"],
            "write_videofile")]
    /\ temp_audio' = p
    /\ UNCHANGED <<dvars, active, budget, inp, outfile, outdir>>

\* write_videofile, second part: the video is encoded to output_path together
\* with the audio read back from the temporary file
WriteVideo(p) ==
    /\ proc[p].pc = "write_video"
    /\ \E ok \in Outcomes(p) :
          IF temp_audio = 0
          THEN /\ proc' = [proc EXCEPT ![p] = Raise(p, "write", FALSE)]
               /\ outfile' = [outfile EXCEPT ![p] = "partial"]
          ELSE IF ~ok
          THEN /\ proc' = [proc EXCEPT ![p] = Raise(p, "write", TRUE)]
               /\ outfile' = [outfile EXCEPT ![p] = "partial"]
          ELSE /\ proc' = [proc EXCEPT ![p].pc = "remove_temp"]
               /\ outfile' = [outfile EXCEPT ![p] =
                                IF temp_audio = p THEN "complete" ELSE "foreign_audio"]
    /\ UNCHANGED <<dvars, active, budget, inp, temp_audio, outdir>>

\* write_videofile, last part (remove_temp=True): the temporary file is removed
RemoveTemp(p) ==
    /\ proc[p].pc = "remove_temp"
    /\ temp_audio' = 0
    /\ proc' = [proc EXCEPT ![p].pc = "report_done"]
    /\ UNCHANGED <<dvars, active, budget, inp, outfile, outdir>>

\* except Exception as e: if progress_callback: progress_callback(1.0, f"Error: {e}");
\* return False, f"An error occurred during processing: {e}"
Except(p) ==
    /\ proc[p].pc = "except"
    /\ \E ok \in (IF inp[p].callback THEN Outcomes(p) ELSE {TRUE}) :
          proc' = [proc EXCEPT ![p] =
            IF ~ok
            THEN [@ EXCEPT !.pc = "finally", !.ret = "raised", !.faults = @ + 1]
            ELSE [@ EXCEPT
                    !.pc = "finally",
                    !.ret = "error",
                    !.reports = IF inp[p].callback
                                THEN Append(@, [fraction |-> <<100, 100>>,
                                                error |-> TRUE])
                                ELSE @]]
    /\ UNCHANGED <<dvars, active, budget, inp, temp_audio, outfile, outdir>>

\* one `if h: try: h.close() except Exception: log` of the finally block;
\* a close() that raised leaves "close_failed" unless the handle was closed before
CloseInFinally(state, ok) ==
    IF state = "none" THEN "none"
    ELSE IF ok \/ state = "closed" THEN "closed"
    ELSE "close_failed"

\* finally: close audio, video and final_clip, each under its own try/except;
\* remove 'temp-audio.m4a' if it exists
Cleanup(p) ==
    /\ proc[p].pc = "finally"
    /\ \E oks \in [{"audio", "video", "final_clip"} -> BOOLEAN] :
          LET attempted == {h \in DOMAIN oks : proc[p][h] # "none"}
              failed == {h \in attempted : ~oks[h]}
          IN  /\ \A h \in DOMAIN oks : h \notin attempted => oks[h]
              /\ proc[p].faults + Cardinality(failed) <= budget
              /\ proc' = [proc EXCEPT ![p] =
                    [@ EXCEPT
                       !.pc = "done",
                       !.audio = CloseInFinally(@, oks["audio"]),
                       !.video = CloseInFinally(@, oks["video"]),
                       !.final_clip = CloseInFinally(@, oks["final_clip"]),
                       !.closes = [h \in DOMAIN @ |->
                                     IF h \in attempted /\ oks[h] THEN @[h] + 1 ELSE @[h]],
                       !.faults = @ + Cardinality(failed)]]
    /\ temp_audio' = 0
    /\ UNCHANGED <<dvars, active, budget, inp, outfile, outdir>>

Step(p) ==
    \/ ReportProgress(p)
    \/ Load(p)
    \/ Extract(p)
    \/ DetectAndPad(p)
    \/ Subclip(p)
    \/ CloseVideoEarly(p)
    \/ CloseAudioEarly(p)
    \/ Concatenate(p)
    \/ MakeOutputDir(p)
    \/ WriteTempAudio(p)
    \/ WriteVideo(p)
    \/ RemoveTemp(p)
    \/ Except(p)
    \/ Cleanup(p)

\* the steps of the one call / of the two concurrent calls
ProcNext == Step(1)

ConcNext == \E p \in Procs : Step(p)

\* the arguments and input files of the calls
AudioFpsValues == {20}
ProcPaddings == {0, 2}

\* the content of a 'temp-audio.m4a' that no call of the model has written
Leftover == 3

\* temp_before: a file 'temp-audio.m4a' is in the working directory at the call
InputsOf(a, f) ==
    {[callback |-> cb, has_audio |-> ha, audio |-> a, audio_fps |-> f,
      thr |-> 0, min_silence |-> 1, merge_gap |-> 4,
      start_padding |-> sp, end_padding |-> sp, video_duration |-> vd,
      temp_before |-> tb] :
        cb \in BOOLEAN, ha \in BOOLEAN, sp \in ProcPaddings,
        vd \in VideoDurations(a, TargetFps(f)), tb \in BOOLEAN}

Inputs ==
    UNION {InputsOf(a, f) : a \in SeqsOfLen(ProcSamples), f \in AudioFpsValues}

DIdle ==
    /\ d_pc = "off" /\ d_audio = <<>> /\ d_fps = 0 /\ d_thr = 0
    /\ d_min = 0 /\ d_gap = 0 /\ d_rms = <<>> /\ d_silent = <<>> /\ d_kept = <<>>
    /\ d_sp = 0 /\ d_ep = 0 /\ d_vd = 0 /\ d_padded = <<>>

PIdle ==
    /\ active = {} /\ budget = 0
    /\ inp = [p \in Procs |-> <<>>]
    /\ proc = [p \in Procs |-> ProcOff]
    /\ temp_audio = 0
    /\ outfile = [p \in Procs |-> "absent"]
    /\ outdir = [p \in Procs |-> FALSE]

\* one call of process_video, any input, up to MaxFaults collaborator failures
ProcInit ==
    /\ DIdle
    /\ active = {1} /\ budget = MaxFaults
    /\ \E i \in Inputs :
          /\ inp = [p \in Procs |-> i]
          /\ temp_audio = IF i.temp_before THEN Leftover ELSE 0
    /\ proc = [p \in Procs |-> IF p \in active THEN ProcStart ELSE ProcOff]
    /\ outfile = [p \in Procs |-> "absent"]
    /\ \E d \in BOOLEAN : outdir = [p \in Procs |-> d]

SpecProc == ProcInit /\ [][ProcNext]_vars

\* two concurrent calls on independent inputs and distinct output paths, in the
\* same working directory, no collaborator failing of its own
ConcAudios ==
    {a \in SeqsOfLen(ProcSamples) :
        /\ \A k \in 1..(Len(a) - 1) : a[k] <= a[k + 1]
        /\ a[1] = 1 \/ a[Len(a) - 1] = 0}

ConcInputs ==
    {i \in UNION {InputsOf(a, 20) : a \in ConcAudios} :
        i.callback /\ i.start_padding = 0 /\ ~i.temp_before}

ConcInit ==
    /\ DIdle
    /\ active = Procs /\ budget = 0
    /\ inp \in [Procs -> ConcInputs]
    /\ proc = [p \in Procs |-> ProcStart]
    /\ temp_audio = 0
    /\ outfile = [p \in Procs |-> "absent"]
    /\ outdir = [p \in Procs |-> TRUE]

SpecConc == ConcInit /\ [][ConcNext]_vars

\* ------------------------------------------------ one detection, then padding
DInit ==
    /\ d_pc = "input"
    /\ d_audio \in SeqsUpTo(MaxSamples) \cup {NoneArray}
    /\ d_fps \in FpsValues
    /\ d_thr \in Thresholds
    /\ d_min = 0 /\ d_gap = 0 /\ d_rms = <<>> /\ d_silent = <<>> /\ d_kept = <<>>
    /\ d_sp = 0 /\ d_ep = 0 /\ d_vd = 0 /\ d_padded = <<>>
    /\ PIdle

\* non_silent_intervals = detect_non_silent_intervals(...)
Detect ==
    /\ d_pc = "input"
    /\ \E m \in MinSilenceUnits, g \in MergeGapUnits :
          /\ d_min' = m
          /\ d_gap' = g
          /\ d_kept' = DetectNonSilentIntervals(d_audio, d_fps, d_thr, m, g)
    /\ d_rms' = IF InvalidInput(d_audio, d_fps) THEN <<>>
                ELSE CalculateRms(d_audio, DetectionFrameSize(d_fps))
    /\ d_silent' = IF \/ InvalidInput(d_audio, d_fps)
                      \/ Len(NonSilentIndices(d_audio, DetectionFrameSize(d_fps),
                                              d_thr)) = 0
                   THEN <<>>
                   ELSE SilentIntervals(d_audio, d_fps, d_thr)
    /\ d_pc' = "detected"
    /\ UNCHANGED <<d_audio, d_fps, d_thr, d_sp, d_ep, d_vd, d_padded, pvars>>

\* the padding loop of process_video over the detected intervals
Pad ==
    /\ d_pc = "detected"
    /\ \E sp \in PaddingUnits, ep \in PaddingUnits,
          vd \in VideoDurations(d_audio, d_fps) :
          /\ d_sp' = sp /\ d_ep' = ep /\ d_vd' = vd
          /\ d_padded' = AdjustedIntervals(d_kept, UnitsToTicks(sp, d_fps),
                                           UnitsToTicks(ep, d_fps), vd)
    /\ d_pc' = "padded"
    /\ UNCHANGED <<d_audio, d_fps, d_thr, d_min, d_gap, d_rms, d_silent, d_kept, pvars>>

DNext == Detect \/ Pad

Spec == DInit /\ [][DNext]_vars

\* either one detection with padding, or one call of process_video
AllInit == DInit \/ ProcInit

AllNext == DNext \/ ProcNext

SpecAll == AllInit /\ [][AllNext]_vars

\* ------------------------------------------------ properties
SortedDisjoint(intervals) ==
    \A i \in 1..(Len(intervals) - 1) : intervals[i][2] <= intervals[i + 1][1]

WithinBounds(intervals, total) ==
    \A i \in 1..Len(intervals) :
        /\ 0 <= intervals[i][1]
        /\ intervals[i][1] < intervals[i][2]
        /\ intervals[i][2] <= total

RECURSIVE SumDurations(_)
SumDurations(intervals) ==
    IF intervals = <<>> THEN 0
    ELSE (Head(intervals)[2] - Head(intervals)[1]) + SumDurations(Tail(intervals))

\* the silent runs of the call in d_audio .. d_min, and the long ones among them
DSilentRuns == SilentIntervals(d_audio, d_fps, d_thr)
DMinSilence == UnitsToTicks(EffectiveMinSilence(d_min), d_fps)
DLongSilences == LongSilentIntervals(DSilentRuns, DMinSilence)

\* C1: the list detect_non_silent_intervals returns is sorted ascending and
\* pairwise disjoint: kept[i].end <= kept[i+1].start for consecutive entries.
KeptSortedDisjoint ==
    d_pc # "input" => SortedDisjoint(d_kept)

\* three kept intervals separated by two removed silences
KeptSortedDisjointWitness ==
    /\ d_pc = "detected"
    /\ Len(d_kept) >= 3
    /\ Len(DLongSilences) >= 2

\* C2: every interval detect_non_silent_intervals returns satisfies
\* 0 <= start < end <= total_duration = len(mono_samples) / fps, also for
\* sample rates for which fps * 0.05 is not an integer.
KeptWithinBounds ==
    d_pc # "input" => WithinBounds(d_kept, TotalDuration(d_audio))

\* fps = 30: frame_size 1, nominal frame 0.05 s; the last voiced frame starts,
\* in nominal time, after the end of the audio
KeptWithinBoundsWitness ==
    /\ d_pc = "detected"
    /\ d_fps = 30
    /\ Len(d_kept) >= 2
    /\ Len(d_audio) = MaxSamples
    /\ AboveThreshold(d_audio, 1, MaxSamples - 1, d_thr)
    /\ (MaxSamples - 1) * DetectionFrameDuration(30) > TotalDuration(d_audio)

\* C3: the adjusted interval list is sorted, pairwise disjoint, and every entry
\* satisfies 0 <= start < end <= video duration, for any padding values.
PaddedSortedDisjointBounded ==
    d_pc = "padded" =>
        /\ SortedDisjoint(d_padded)
        /\ WithinBounds(d_padded, d_vd)

\* two padded intervals, the second pushed forward to the end of the first
PaddedSortedDisjointBoundedWitness ==
    /\ d_pc = "padded"
    /\ Len(d_kept) >= 2
    /\ Len(d_padded) >= 2
    /\ d_padded[2][1] = d_padded[1][2]
    /\ d_padded[2][1] > d_kept[2][1] - UnitsToTicks(d_sp, d_fps)

\* a sample buffer and a sample rate the detection accepts
DValid == d_fps > 0 /\ d_audio # NoneArray

\* C4: kept durations plus long-silence durations add up to the total duration.
KeptPlusLongSilenceIsTotal ==
    d_pc # "input" /\ DValid =>
        SumDurations(d_kept) + SumDurations(DLongSilences) = TotalDuration(d_audio)

\* C5: a silent run shorter than min_silence_len_sec lies inside one kept interval.
ShortSilenceStaysKept ==
    d_pc # "input" /\ DValid =>
        \A r \in 1..Len(DSilentRuns) :
            DSilentRuns[r][2] - DSilentRuns[r][1] < DMinSilence =>
                \E k \in 1..Len(d_kept) :
                    /\ d_kept[k][1] <= DSilentRuns[r][1]
                    /\ DSilentRuns[r][2] <= d_kept[k][2]

\* ------------------------------------------------ properties of process_video
\* what a call returns when nothing fails and it runs alone
SoloResult(i) ==
    LET fps == TargetFps(i.audio_fps)
        non_silent == DetectNonSilentIntervals(i.audio, fps, i.thr,
                                               i.min_silence, i.merge_gap)
        adjusted == AdjustedIntervals(non_silent, UnitsToTicks(i.start_padding, fps),
                                      UnitsToTicks(i.end_padding, fps), i.video_duration)
    IN  IF ~i.has_audio THEN "error"
        ELSE IF Len(non_silent) = 0 THEN "no_segments"
        ELSE IF Len(adjusted) = 0 THEN "padding_empty"
        ELSE "ok"

Monotone(reports) ==
    \A k \in 1..(Len(reports) - 1) :
        FracLeq(reports[k].fraction, reports[k + 1].fraction)

\* C6: process_video never raises across its public boundary, whatever
\* collaborator call fails, the progress callback included.
NeverRaises ==
    \A p \in Procs : proc[p].ret # "raised"

\* C7: when the call returns, every clip handle opened during it (video, audio,
\* each subclip, the concatenated clip) has been closed.
HandlesReleasedOnExit ==
    \A p \in Procs :
        proc[p].pc = "done" =>
            /\ proc[p].video # "open"
            /\ proc[p].audio # "open"
            /\ proc[p].final_clip # "open"
            /\ \A k \in 1..Len(proc[p].subclips) : proc[p].subclips[k] # "open"

\* C8: concurrent calls on independent inputs with distinct output paths do not
\* disturb each other: each returns what it returns alone, with its own output.
ConcurrentRunsIndependent ==
    \A p \in Procs :
        proc[p].pc = "done" =>
            /\ proc[p].ret = SoloResult(inp[p])
            /\ outfile[p] = IF SoloResult(inp[p]) = "ok" THEN "complete" ELSE "absent"

\* C9: a call that returns a failure result with a progress sink supplied has
\* made its last report with fraction 1.0 and an error message.
FailureReportsError ==
    \A p \in Procs :
        ( /\ proc[p].pc = "done"
          /\ proc[p].ret \in {"no_segments", "padding_empty", "error"}
          /\ inp[p].callback )
        => /\ Len(proc[p].reports) > 0
           /\ proc[p].reports[Len(proc[p].reports)].fraction = <<100, 100>>
           /\ proc[p].reports[Len(proc[p].reports)].error

\* C10: in a run without error the fractions passed to the progress sink are
\* monotonically non-decreasing, for every number of padded intervals.
ProgressMonotone ==
    \A p \in Procs :
        proc[p].err = "none" => Monotone(proc[p].reports)

\* a successful run over three padded intervals: load, extract, detect, three
\* segments, concatenate, write, done
ProgressMonotoneWitness ==
    /\ proc[1].pc = "done"
    /\ proc[1].ret = "ok"
    /\ proc[1].err = "none"
    /\ Len(proc[1].adjusted) >= 3
    /\ Len(proc[1].reports) = Len(proc[1].adjusted) + 6

\* the collaborator calls of p that carry the given name
CallsOf(p, name) == {k \in 1..Len(proc[p].calls) : proc[p].calls[k] = name}

\* C11: when the slice call of one padded interval raises and the other padded
\* intervals can be extracted, the call skips that interval and returns success
\* with an output made of the remaining ones.
SegmentFailureSkipped ==
    \A p \in Procs :
        ( /\ proc[p].pc = "done"
          /\ proc[p].err = "subclipped"
          /\ proc[p].faults = 1
          /\ Len(proc[p].adjusted) >= 2 )
        => /\ proc[p].ret = "ok"
           /\ outfile[p] = "complete"

\* C12: when concatenation or the write step fails and nothing else does, the
\* call returns the failure result and neither 'temp-audio.m4a' nor a partly
\* written file at output_path is left.
FailedWriteLeavesNoArtifact ==
    \A p \in Procs :
        ( /\ proc[p].pc = "done"
          /\ proc[p].err \in {"concatenate", "write"}
          /\ proc[p].faults = 1 )
        => /\ proc[p].ret = "error"
           /\ temp_audio = 0
           /\ outfile[p] = "absent"

\* C13: once detection returned no interval, or padding left none, the call
\* makes no slice, concatenation, makedirs or write call, leaves no output
\* file, and returns a failure result instead of raising.
EmptyResultIsQuietFailure ==
    \A p \in Procs :
        ( /\ CallsOf(p, "detect_non_silent_intervals") # {}
          /\ Len(proc[p].kept) = 0 \/ Len(proc[p].adjusted) = 0 )
        => /\ \A name \in {"subclipped", "concatenate_videoclips",
                           "makedirs", "write_videofile"} : CallsOf(p, name) = {}
           /\ outfile[p] = "absent"
           /\ proc[p].pc = "done" =>
                proc[p].ret \in {"no_segments", "padding_empty", "error"}

\* every frame of the buffer has dB <= threshold_db / dB > threshold_db,
\* written on the mean square of the frame
AllFramesSilent(audio_array, fps, thr) ==
    \A i \in 0..(NumFrames(audio_array, DetectionFrameSize(fps)) - 1) :
        LET frame == Frame(audio_array, DetectionFrameSize(fps), i)
        IN  4 * SumSquares(frame) <= thr * Len(frame)

AllFramesVoiced(audio_array, fps, thr) ==
    \A i \in 0..(NumFrames(audio_array, DetectionFrameSize(fps)) - 1) :
        LET frame == Frame(audio_array, DetectionFrameSize(fps), i)
        IN  4 * SumSquares(frame) > thr * Len(frame)

\* C14: for a buffer whose frames are all silent and which lasts at least
\* min_silence_len_sec, detect_non_silent_intervals returns the empty list, and
\* a call of process_video that detects on such a buffer returns the
\* no-segments failure.
AllSilentGivesNothing ==
    /\ ( /\ d_pc # "input"
         /\ DValid
         /\ Len(d_audio) > 0
         /\ AllFramesSilent(d_audio, d_fps, d_thr)
         /\ TotalDuration(d_audio) >= DMinSilence )
       => d_kept = <<>>
    /\ \A p \in Procs :
        ( /\ CallsOf(p, "detect_non_silent_intervals") # {}
          /\ AllFramesSilent(inp[p].audio, TargetFps(inp[p].audio_fps), inp[p].thr)
          /\ TotalDuration(inp[p].audio) >=
                UnitsToTicks(EffectiveMinSilence(inp[p].min_silence),
                             TargetFps(inp[p].audio_fps)) )
        => /\ proc[p].kept = <<>>
           /\ proc[p].ret = "no_segments"

\* a call of process_video on a buffer whose frames are all exactly at the
\* threshold has detected nothing and returned
AllSilentGivesNothingWitness ==
    /\ proc[1].pc = "done"
    /\ Len(inp[1].audio) >= 5
    /\ AllFramesSilent(inp[1].audio, TargetFps(inp[1].audio_fps), inp[1].thr)
    /\ CallsOf(1, "detect_non_silent_intervals") # {}
    /\ proc[1].kept = <<>>
    /\ proc[1].ret = "no_segments"

\* C15: for a non-empty buffer whose frames are all voiced,
\* detect_non_silent_intervals returns the one interval (0, total_duration),
\* whatever min_silence_len_sec and merge_gap_sec are.
AllVoicedKeepsEverything ==
    ( /\ d_pc # "input"
      /\ DValid
      /\ Len(d_audio) > 0
      /\ AllFramesVoiced(d_audio, d_fps, d_thr) )
    => d_kept = <<<<0, TotalDuration(d_audio)>>>>

\* a voiced buffer of several frames, the last one partial, with the largest
\* min_silence_len_sec and merge_gap_sec
AllVoicedKeepsEverythingWitness ==
    /\ d_pc = "detected"
    /\ d_fps = 40 /\ d_thr = 2 /\ d_min = 3 /\ d_gap = 2
    /\ Len(d_audio) = 5
    /\ AllFramesVoiced(d_audio, d_fps, d_thr)
    /\ d_kept = <<<<0, 100>>>>

\* the buffer of the detection is voiced in every frame but frames k1..k2
SilentExactly(k1, k2) ==
    \A i \in 0..(NumFrames(d_audio, DetectionFrameSize(d_fps)) - 1) :
        AboveThreshold(d_audio, DetectionFrameSize(d_fps), i, d_thr)
            <=> (i < k1 \/ i > k2)

\* where frame k of the buffer starts, in ticks: k * frame_size samples
FrameStart(k) == k * DetectionFrameSize(d_fps) * 20

\* C16: for audio voiced everywhere but in one span [a, b) of whole frames,
\* 0 < a < b < T and b - a >= min_silence_len_sec, detection returns
\* [(0, a), (b, T)] and padding, with paddings that are not negative and a video
\* as long as the audio, returns
\* [(0, min(T, a + end_padding)), (max(a + end_padding, b - start_padding), T)].
OneSilenceCutOut ==
    d_pc # "input" /\ DValid =>
        \A k1, k2 \in 0..(NumFrames(d_audio, DetectionFrameSize(d_fps)) - 1) :
            LET a  == FrameStart(k1)
                b  == FrameStart(k2 + 1)
                T  == TotalDuration(d_audio)
                sp == UnitsToTicks(d_sp, d_fps)
                ep == UnitsToTicks(d_ep, d_fps)
            IN  ( /\ k1 <= k2
                  /\ 0 < a /\ b < T
                  /\ SilentExactly(k1, k2)
                  /\ b - a >= DMinSilence )
                => /\ d_kept = <<<<0, a>>, <<b, T>>>>
                   /\ (d_pc = "padded" /\ d_vd = T /\ d_sp >= 0 /\ d_ep >= 0)
                      => d_padded = <<<<0, Min(T, a + ep)>>,
                                      <<Max(a + ep, b - sp), T>>>>

\* merge_gap_sec of the detection after validation, in ticks
DMergeGap == UnitsToTicks(EffectiveMergeGap(d_gap), d_fps)

\* C19: a silent run between two voiced runs that is shorter than merge_gap_sec
\* lies, with the voiced runs on both sides of it, in one returned interval,
\* whatever min_silence_len_sec is.
ShortGapMerged ==
    d_pc # "input" /\ DValid =>
        \A r \in 1..Len(DSilentRuns) :
            LET before == IF r = 1 THEN 0 ELSE DSilentRuns[r - 1][2]
                after  == IF r = Len(DSilentRuns) THEN TotalDuration(d_audio)
                          ELSE DSilentRuns[r + 1][1]
            IN  ( /\ before < DSilentRuns[r][1]
                  /\ DSilentRuns[r][2] < after
                  /\ DSilentRuns[r][2] - DSilentRuns[r][1] < DMergeGap )
                => \E k \in 1..Len(d_kept) :
                      /\ d_kept[k][1] <= before
                      /\ after <= d_kept[k][2]

\* C20: detect_non_silent_intervals returns the empty list whenever fps <= 0,
\* the buffer is None or the buffer has no sample, whatever the other
\* parameters are; the three returns come before anything is computed.
InvalidInputGivesNothing ==
    ( /\ d_pc # "input"
      /\ d_fps <= 0 \/ d_audio = NoneArray \/ Len(d_audio) = 0 )
    => d_kept = <<>>

\* fps = 0 with a voiced buffer below the lowest threshold
InvalidInputGivesNothingWitness ==
    /\ d_pc = "detected"
    /\ d_fps = 0 /\ d_thr = -1 /\ d_min = 1
    /\ Len(d_audio) = 5
    /\ d_kept = <<>>

\* C17: the list given to concatenation holds one slice per padded interval,
\* in the order of the padded intervals; every slice call is made before the
\* concatenation call, which has returned a clip before the write call is made.
StagesInOrder ==
    \A p \in Procs :
        /\ CallsOf(p, "concatenate_videoclips") # {} =>
              /\ proc[p].concat_arg = proc[p].adjusted
              /\ Cardinality(CallsOf(p, "subclipped")) = Len(proc[p].adjusted)
              /\ Len(proc[p].subclips) = Len(proc[p].adjusted)
        /\ CallsOf(p, "write_videofile") # {} => proc[p].final_clip # "none"
        /\ \A i, j \in 1..Len(proc[p].calls) :
              i < j =>
                /\ proc[p].calls[i] = "concatenate_videoclips" =>
                      proc[p].calls[j] # "subclipped"
                /\ proc[p].calls[i] = "write_videofile" =>
                      proc[p].calls[j] \notin {"subclipped", "concatenate_videoclips"}

\* a successful call over at least two distinct padded intervals
StagesInOrderWitness ==
    /\ proc[1].pc = "done"
    /\ proc[1].ret = "ok"
    /\ Len(proc[1].adjusted) >= 2
    /\ proc[1].concat_arg = proc[1].adjusted
    /\ CallsOf(1, "write_videofile") # {}

\* C18: when the input cannot be opened or has no audio track, the call makes
\* no detection, slice, concatenation or write call, writes no output file and
\* returns the failure result.
UnusableInputFailsAtOnce ==
    \A p \in Procs :
        proc[p].err \in {"open", "no_audio"} =>
            /\ \A name \in {"to_soundarray", "detect_non_silent_intervals",
                            "subclipped", "concatenate_videoclips", "makedirs",
                            "write_videofile"} : CallsOf(p, name) = {}
            /\ outfile[p] = "absent"
            /\ proc[p].pc = "done" => proc[p].ret = "error"

\* the detection went past its early returns: the input is accepted and some
\* frame is above the threshold
DComputed ==
    /\ d_pc # "input"
    /\ ~InvalidInput(d_audio, d_fps)
    /\ Len(NonSilentIndices(d_audio, DetectionFrameSize(d_fps), d_thr)) > 0

\* C21: for a non-empty buffer calculate_rms returns floor(len / frame_size)
\* values: a trailing slice shorter than frame_size gives no value.
RmsDropsPartialFrame ==
    d_pc # "input" /\ ~InvalidInput(d_audio, d_fps) =>
        Len(d_rms) = Len(d_audio) \div DetectionFrameSize(d_fps)

\* the silent runs of frames, each as <<first index, last index>>
DSilentGroups ==
    GroupConsecutive(SilentIndices(d_audio, DetectionFrameSize(d_fps), d_thr))

\* C22: a run of frames [start_idx, end_idx] becomes the time interval
\* [start_idx * d, min((end_idx + 1) * d, total_duration)) with
\* d = frame_size / fps for the frame size used for framing, also when
\* fps * 0.05 is not a whole number.
FrameTimesFollowFrameSize ==
    DComputed =>
        /\ Len(d_silent) = Len(DSilentGroups)
        /\ \A r \in 1..Len(d_silent) :
              LET d == DetectionFrameSize(d_fps) * 20
              IN  d_silent[r] =
                    <<DSilentGroups[r][1] * d,
                      Min((DSilentGroups[r][2] + 1) * d, TotalDuration(d_audio))>>

\* the padding rule applied to the first n kept intervals of the detection, as
\* <<last_end, emitted intervals>>
RECURSIVE PaddedAfter(_)
PaddedAfter(n) ==
    IF n = 0 THEN <<0, <<>>>>
    ELSE LET prev         == PaddedAfter(n - 1)
             last_end     == prev[1]
             padded_start == Max(last_end,
                                 Max(0, d_kept[n][1] - UnitsToTicks(d_sp, d_fps)))
             padded_end   == Min(d_vd, d_kept[n][2] + UnitsToTicks(d_ep, d_fps))
         IN  IF padded_end <= padded_start THEN prev
             ELSE <<padded_end, Append(prev[2], <<padded_start, padded_end>>)>>

\* C23: the padded list is what the rule gives over the kept intervals in order,
\* last_end starting at 0: padded_start = max(last_end, max(0, start - start
\* padding)), padded_end = min(total duration, end + end padding), the total
\* duration being the duration of the video; the interval is discarded iff
\* padded_end <= padded_start, which leaves last_end as it is, else it is emitted
\* and last_end becomes padded_end; no emitted interval starts before the end of
\* the one emitted before it.
PaddingFollowsRule ==
    d_pc = "padded" =>
        /\ d_padded = PaddedAfter(Len(d_kept))[2]
        /\ \A i \in 1..(Len(d_padded) - 1) : d_padded[i + 1][1] >= d_padded[i][2]

\* three kept intervals: one emitted, one pushed forward to last_end, and one
\* discarded because nothing of it is left below the video duration
PaddingFollowsRuleWitness ==
    /\ d_pc = "padded"
    /\ Len(d_kept) = 3
    /\ Len(d_padded) = 2
    /\ d_padded[2][1] = d_padded[1][2]
    /\ d_padded[2][1] > Max(0, d_kept[2][1] - UnitsToTicks(d_sp, d_fps))

\* C28: with start and end padding that are not negative, every time point of
\* a kept interval that is below the video duration lies in a padded interval.
PaddingKeepsKeptTime ==
    (d_pc = "padded" /\ d_sp >= 0 /\ d_ep >= 0) =>
        \A k \in 1..Len(d_kept) :
            \A t \in d_kept[k][1]..(Min(d_kept[k][2], d_vd) - 1) :
                \E j \in 1..Len(d_padded) :
                    d_padded[j][1] <= t /\ t < d_padded[j][2]

\* the end padding of the first kept interval reaches past the start of the
\* second one, and one kept interval is discarded
PaddingKeepsKeptTimeWitness ==
    /\ d_pc = "padded"
    /\ d_sp >= 0 /\ d_ep > 0
    /\ Len(d_kept) >= 2
    /\ Len(d_padded) < Len(d_kept)
    /\ d_padded[1][2] > d_kept[2][1]

\* C24: a call with min_silence_len_sec <= 0 returns the list a call with
\* min_silence_len_sec = 0.1 returns, and a call with merge_gap_sec < 0 the
\* list a call with merge_gap_sec = 0 returns, on the same other arguments.
FallbackParametersEquivalent ==
    d_pc = "detected" =>
        /\ d_min <= 0 =>
              d_kept = DetectNonSilentIntervals(d_audio, d_fps, d_thr, 2, d_gap)
        /\ d_gap < 0 =>
              d_kept = DetectNonSilentIntervals(d_audio, d_fps, d_thr, d_min, 0)

\* min_silence_len_sec = 0 and merge_gap_sec < 0 on a buffer with a silence of
\* 0.1 s, which is cut, and one of 0.05 s, which is not
FallbackParametersEquivalentWitness ==
    /\ d_pc = "detected"
    /\ d_fps = 20 /\ d_min = 0 /\ d_gap = -1
    /\ d_audio = <<1, 0, 0, 1, 0, 1>>
    /\ d_thr = 0
    /\ d_kept = <<<<0, 20>>, <<60, 120>>>>

VoicedFramesKept ==
    (DComputed /\ d_fps % 20 = 0) =>
        \A k \in 0..(Len(d_rms) - 1) :
            AboveThreshold(d_audio, DetectionFrameSize(d_fps), k, d_thr) =>
                \E j \in 1..Len(d_kept) :
                    /\ d_kept[j][1] <= FrameStart(k)
                    /\ Min(FrameStart(k + 1), TotalDuration(d_audio)) <= d_kept[j][2]

\* at fps = 40 (two samples a frame) a voiced partial last frame after a long
\* silence, and a voiced first frame before it
VoicedFramesKeptWitness ==
    /\ d_pc = "detected"
    /\ d_fps = 40 /\ d_thr = 0 /\ d_min = 1
    /\ d_audio = <<1, 0, 0, 0, 1>>
    /\ d_kept = <<<<0, 40>>, <<80, 100>>>>

\* C27: every stretch of the timeline the detection removes is a silent run of
\* at least the effective min_silence_len_sec: the gap between consecutive
\* returned intervals, the stretch before the first one and the stretch after
\* the last one are that long or empty, and so is the whole timeline when
\* nothing is returned.
RemovedStretchesAreLong ==
    (d_pc # "input" /\ DValid /\ Len(d_audio) > 0) =>
        /\ \A i \in 1..(Len(d_kept) - 1) :
              d_kept[i + 1][1] - d_kept[i][2] >= DMinSilence
        /\ Len(d_kept) > 0 =>
              /\ d_kept[1][1] = 0 \/ d_kept[1][1] >= DMinSilence
              /\ \/ TotalDuration(d_audio) - d_kept[Len(d_kept)][2] = 0
                 \/ TotalDuration(d_audio) - d_kept[Len(d_kept)][2] >= DMinSilence
        /\ Len(d_kept) = 0 => TotalDuration(d_audio) >= DMinSilence

\* C29: on every exit path the source video, the audio track and the
\* concatenated clip are each closed at most once.
ClosedAtMostOnce ==
    \A p \in Procs :
        \A h \in {"video", "audio", "final_clip"} : proc[p].closes[h] <= 1

\* a successful makedirs call of p
MadeOutputDir(p) ==
    \E k \in CallsOf(p, "makedirs") :
        k < Len(proc[p].calls) \/ proc[p].err # "makedirs"

\* C30: a call that returns without having reached the write step has changed
\* nothing in the file system: no output file, no directory created, and a
\* 'temp-audio.m4a' that was there before the call is still there.
EarlyReturnLeavesFilesAlone ==
    \A p \in Procs :
        (proc[p].pc = "done" /\ CallsOf(p, "write_videofile") = {}) =>
            /\ outfile[p] = "absent"
            /\ ~MadeOutputDir(p)
            /\ temp_audio = IF inp[p].temp_before THEN Leftover ELSE 0

====
